---- MODULE Spec2Model ----
(***************************************************************************)
(* Model of the CSV -> PostgreSQL loader                                   *)
(*   src/src/data_processing/loaders/csv_to_postgres.py                    *)
(*   src/src/utils/config.py                                               *)
(*                                                                         *)
(* Two specifications:                                                     *)
(*   Spec      the command-line flow main(): configuration, connect,       *)
(*             load_all_tables / verify_data, disconnect, and the operator *)
(*             re-invoking the command against the same data directory.    *)
(*   SpecTable load_table applied once to one table, with the source file  *)
(*             drawn from every file of the bounded input space.           *)
(***************************************************************************)
EXTENDS Integers, Sequences, FiniteSets, TLC

VARIABLES
    pc,            \* position in main() (Spec) or in the single load (SpecTable)
    run,           \* number of the current invocation of the command
    verify_only,   \* args.verify_only of the current invocation
    config,        \* the configuration dictionary: key -> kind of value (empty before it is loaded)
    connection,    \* "noloader" before the loader exists, then loader.connection: "none" (None), "open", "closed"
    files,         \* the data directory: the source file of each table
    store,         \* committed content of the destination tables
    txn,           \* content seen through the loader's connection (uncommitted included)
    storeAtStart,  \* committed content when the current invocation started
    idx,           \* index in table_load_order of the next table to load
    results,       \* the dictionary `results` of load_all_tables
    payload,       \* data_tuples of the last load_table that built them
    raisedAt,      \* the step whose exception ended the flow, "none" otherwise
    mainResults,   \* `results` of main(): <<>> until load_all_tables / verify_data returns, then <<dict>>
    verifyResults, \* `verify_results` of main(): <<>> until verify_data returns after a load
    exitCode,      \* process exit status (meaningful once pc = "exited")
    prevOutcome,   \* how the previous invocation ended ("first" in the first one)
    log            \* store-client calls of the current invocation, in order

vars == <<pc, run, verify_only, config, connection, files, store, txn, storeAtStart,
          idx, results, payload, raisedAt, mainResults, verifyResults, exitCode,
          prevOutcome, log>>

----------------------------------------------------------------------------
(* Bounds of the model *)

MaxRows == 2      \* rows per source file in SpecTable
MaxRuns == 2      \* invocations of the command in Spec

----------------------------------------------------------------------------
(* Values *)

Null == <<"null", "">>          \* None / NaN / NaT / pd.NA
Raw(s) == <<"raw", s>>          \* an untyped cell as read_csv delivers it
IntVal(s) == <<"int", s>>       \* an Int64 value
TsVal(s) == <<"ts", s>>         \* a datetime64 value

\* A source file as the data directory holds it.  status "unread": load_table
\* has not looked at it yet; "missing": no such file; "malformed": read_csv
\* cannot parse it; "ok": a header line and rows of cell texts.
NoFile(status) == [status |-> status, header |-> <<>>, rows |-> <<>>]
Unread == NoFile("unread")
Missing == NoFile("missing")
Malformed == NoFile("malformed")
CsvFile(header, rows) == [status |-> "ok", header |-> header, rows |-> rows]

IntTexts == {"1", "2"}
FracTexts == {"1.5"}
DateTexts == {"2020-01-01"}

----------------------------------------------------------------------------
(* CSVToPostgresLoader.__init__ *)

\* Faulty variant: bio_email is loaded before bio_vip.
EmailFirstOrder ==
    <<"bio_email", "bio_vip", "bio_name", "bio_email_for_vip", "bio_email_for_vip_tags">>

table_load_order ==
    <<"bio_vip", "bio_email", "bio_name", "bio_email_for_vip", "bio_email_for_vip_tags">>

NumTables == Len(table_load_order)

Tables == {table_load_order[i] : i \in 1..NumTables}

csv_mappings ==
    [t \in Tables |->
        CASE t = "bio_vip" -> "BIO_VIP.csv"
          [] t = "bio_email" -> "BIO_EMAIL.csv"
          [] t = "bio_name" -> "BIO_NAME.csv"
          [] t = "bio_email_for_vip" -> "BIO_EMAIL_FOR_VIP.csv"
          [] t = "bio_email_for_vip_tags" -> "BIO_EMAIL_FOR_VIP_TAGS.csv"]

----------------------------------------------------------------------------
(* clean_data: the per-table coercion rules *)

TimestampCols(t) ==
    CASE t = "bio_vip" -> {"created_on", "updated_on"}
      [] t = "bio_email" -> {"updated_on"}
      [] t = "bio_name" -> {"created_on", "updated_on"}
      [] OTHER -> {}

NumericCols(t) ==
    CASE t = "bio_vip" -> {"id"}
      [] t = "bio_email" -> {"id"}
      [] t = "bio_name" -> {"id", "vip_id"}
      [] t = "bio_email_for_vip" -> {"is_bad", "id", "email_id", "vip_id"}
      [] t = "bio_email_for_vip_tags" -> {"id", "emailforvip_id"}
      [] OTHER -> {}

----------------------------------------------------------------------------
(* The input space: source files *)

\* The columns of the modelled sources: the key, one non-key column that
\* clean_data coerces for the table, and one column it leaves untouched.
KeyCol == "id"
TextCol == "label"

CoercedCol(t) ==
    CASE t = "bio_vip" -> "updated_on"
      [] t = "bio_email" -> "updated_on"
      [] t = "bio_name" -> "vip_id"
      [] t = "bio_email_for_vip" -> "is_bad"
      [] t = "bio_email_for_vip_tags" -> "emailforvip_id"

NonKeyCols(t) == {CoercedCol(t), TextCol}

Headers(t) == { <<KeyCol>>, <<KeyCol, CoercedCol(t)>>, <<KeyCol, CoercedCol(t), TextCol>> }

ColSet(header) == {header[i] : i \in 1..Len(header)}

\* Cell texts a source may hold in a column ("" is a blank cell).
CellTexts(t, col) ==
    IF col = KeyCol THEN {"", "1", "2", "1.5"}
    ELSE IF col \in NumericCols(t) THEN {"", "1", "abc"}
    ELSE IF col \in TimestampCols(t) THEN {"", "2020-01-01", "abc"}
    ELSE {"", "x"}

RawRows(t, header) ==
    {r \in [ColSet(header) -> UNION {CellTexts(t, c) : c \in ColSet(header)}] :
        \A c \in ColSet(header) : r[c] \in CellTexts(t, c)}

----------------------------------------------------------------------------
(* pandas: read_csv, dropna, replace, to_numeric/astype, to_datetime *)

\* pd.read_csv(csv_path, header=0): the first line names the columns, a blank
\* cell is NaN, every other cell keeps its text.
ReadCsv(file) ==
    [i \in 1..Len(file.rows) |->
        [c \in ColSet(file.header) |->
            IF file.rows[i][c] = "" THEN Null ELSE Raw(file.rows[i][c])]]

AllNull(row) == \A c \in DOMAIN row : row[c] = Null

DropNaAll(rows) == SelectSeq(rows, LAMBDA r : ~AllNull(r))

ReplaceEmpty(rows) ==
    [i \in 1..Len(rows) |->
        [c \in DOMAIN rows[i] |-> IF rows[i][c] = Raw("") THEN Null ELSE rows[i][c]]]

\* pd.to_numeric(errors='coerce') of one cell: a number or NaN.
ToNumeric(v) ==
    IF v = Null THEN Null
    ELSE IF v[2] \in IntTexts THEN IntVal(v[2])
    ELSE IF v[2] \in FracTexts THEN <<"float", v[2]>>
    ELSE Null

\* .astype('Int64') raises TypeError when the column holds a float that is not
\* an integer ("cannot safely cast non-equivalent float64 to int64").
AstypeInt64Raises(rows, col) ==
    \E i \in 1..Len(rows) : ToNumeric(rows[i][col])[1] = "float"

\* pd.to_datetime(errors='coerce') of one cell: a date-time or NaT.
ToDatetime(v) ==
    IF v = Null THEN Null
    ELSE IF v[2] \in DateTexts THEN TsVal(v[2])
    ELSE Null

----------------------------------------------------------------------------
(* clean_data *)

CoercedNumeric(t, cols) == cols \cap NumericCols(t)

\* Rows that reach the coercions: dropna(how='all') on the cells as read,
\* then replace('', None).
CleanPrepare(rows) == ReplaceEmpty(DropNaAll(rows))

CleanRaises(t, rows) ==
    /\ Len(CleanPrepare(rows)) > 0
    /\ \E c \in CoercedNumeric(t, DOMAIN CleanPrepare(rows)[1]) :
          AstypeInt64Raises(CleanPrepare(rows), c)

clean_data(t, rows) ==
    LET kept == CleanPrepare(rows)
    IN  [i \in 1..Len(kept) |->
            [c \in DOMAIN kept[i] |->
                IF c \in TimestampCols(t) THEN ToDatetime(kept[i][c])
                ELSE IF c \in NumericCols(t) THEN ToNumeric(kept[i][c])
                ELSE kept[i][c]]]

----------------------------------------------------------------------------
(* load_table *)

\* data_tuples: every cleaned row, NaN/NaT/NA turned into None, each other
\* value passed on as it is.
DataTuples(cleaned) ==
    [i \in 1..Len(cleaned) |->
        [c \in DOMAIN cleaned[i] |-> IF cleaned[i][c] = Null THEN Null ELSE cleaned[i][c]]]

\* The columns the statement assigns on conflict:
\* [f"{col} = EXCLUDED.{col}" for col in columns if col != 'id'].
SetCols(header) == ColSet(header) \ {KeyCol}

\* With no non-key column the statement ends in "DO UPDATE SET" and nothing
\* after it, which the store refuses as a syntax error.
EmptySetClause(header) == SetCols(header) = {}

\* The destination tables declare id as their primary key: a row whose id is
\* null violates it.
NullKeyRejected(row) == row[KeyCol] = Null

StatementRaises(header, row) == EmptySetClause(header) \/ NullKeyRejected(row)

\* Faulty variant: a plain INSERT into a table that generates a new key when
\* the row's key is taken, so that a conflicting row is added, not updated.
UpsertRowAppend(t, tbl, header, row) ==
    LET key == row[KeyCol][2]
        fresh == IF key \in DOMAIN tbl
                 THEN (IF "1" \notin DOMAIN tbl THEN "1"
                       ELSE IF "2" \notin DOMAIN tbl THEN "2" ELSE "3")
                 ELSE key
    IN  [k \in DOMAIN tbl \cup {fresh} |->
            IF k = fresh
            THEN [c \in NonKeyCols(t) |-> IF c \in SetCols(header) THEN row[c] ELSE Null]
            ELSE tbl[k]]

\* Faulty variant: on conflict the stored row is kept (ON CONFLICT (id) DO
\* NOTHING), so that the first row with a key wins.
UpsertRowKeep(t, tbl, header, row) ==
    LET key == row[KeyCol][2]
    IN  IF key \in DOMAIN tbl THEN tbl
        ELSE [k \in DOMAIN tbl \cup {key} |->
                IF k = key
                THEN [c \in NonKeyCols(t) |-> IF c \in SetCols(header) THEN row[c] ELSE Null]
                ELSE tbl[k]]

\* Faulty variant: on conflict a null incoming value keeps the stored one
\* (SET col = COALESCE(EXCLUDED.col, col)).
UpsertRowMerge(t, tbl, header, row) ==
    LET key == row[KeyCol][2]
    IN  [k \in DOMAIN tbl \cup {key} |->
            IF k = key
            THEN [c \in NonKeyCols(t) |->
                    IF c \in SetCols(header) /\ (row[c] # Null \/ key \notin DOMAIN tbl)
                    THEN row[c]
                    ELSE IF key \in DOMAIN tbl THEN tbl[key][c] ELSE Null]
            ELSE tbl[k]]

\* INSERT ... ON CONFLICT (id) DO UPDATE SET col = EXCLUDED.col, for one row
\* of a table tbl (a function from the ids present to the non-key columns).
\* An inserted row takes the store's default (null) in the columns the
\* statement does not name; an updated row keeps what it had in them.
UpsertRow(t, tbl, header, row) ==
    LET key == row[KeyCol][2]
    IN  [k \in DOMAIN tbl \cup {key} |->
            IF k = key
            THEN [c \in NonKeyCols(t) |->
                    IF c \in SetCols(header) THEN row[c]
                    ELSE IF key \in DOMAIN tbl THEN tbl[key][c] ELSE Null]
            ELSE tbl[k]]

\* cursor.executemany: the statement once per tuple, in order, stopping at the
\* first tuple the store refuses.  Result: the table as the transaction then
\* sees it, and whether a statement raised.
RECURSIVE ExecuteMany(_, _, _, _, _)
ExecuteMany(t, tbl, header, tuples, i) ==
    IF i > Len(tuples) THEN [table |-> tbl, raised |-> FALSE]
    ELSE IF StatementRaises(header, tuples[i]) THEN [table |-> tbl, raised |-> TRUE]
    ELSE ExecuteMany(t, UpsertRow(t, tbl, header, tuples[i]), header, tuples, i + 1)

\* cursor.rowcount after executemany: the rows affected, summed over the
\* statements executed (each statement inserts or updates one row).
RowCount(tuples) == Len(tuples)

\* load_table(table_name) on a source `file` and the table content `tbl` of
\* the open transaction.  status "return": it returned `count`; "raise": an
\* exception left load_table.  table is what the transaction then holds,
\* tuples is data_tuples (<<>> when they were not built), step names the
\* place that decided the outcome.
Outcome(status, count, tbl, tuples, step) ==
    [status |-> status, count |-> count, table |-> tbl, tuples |-> tuples, step |-> step]

\* Faulty variant: an absent file raises.
MissingSourceRaises(tbl) == Outcome("raise", 0, tbl, <<>>, "exists")

\* "if not csv_path.exists(): ... return 0"
MissingSource(tbl) == Outcome("return", 0, tbl, <<>>, "exists")

\* Faulty variant: the handler logs the error and returns 0.
OnLoadErrorSwallow(out) == [out EXCEPT !.status = "return", !.count = 0]

\* "except Exception as e: logger.error(...); raise"
OnLoadError(out) == out

\* The body of the try block.
LoadTableTry(t, file, tbl) ==
    IF file.status = "malformed" THEN Outcome("raise", 0, tbl, <<>>, "read_csv")
    ELSE IF CleanRaises(t, ReadCsv(file)) THEN Outcome("raise", 0, tbl, <<>>, "clean_data")
    ELSE LET df == clean_data(t, ReadCsv(file))
             tuples == DataTuples(df)
             done == ExecuteMany(t, tbl, file.header, tuples, 1)
         IN  IF Len(df) = 0 THEN Outcome("return", 0, tbl, <<>>, "empty")
             ELSE IF done.raised THEN Outcome("raise", 0, done.table, tuples, "executemany")
             ELSE Outcome("return", RowCount(tuples), done.table, tuples, "loaded")

load_table(t, file, tbl) ==
    IF t \notin DOMAIN csv_mappings THEN Outcome("return", 0, tbl, <<>>, "mapping")
    ELSE IF file.status = "missing" THEN MissingSource(tbl)
    ELSE LET out == LoadTableTry(t, file, tbl)
         IN  IF out.status = "raise" THEN OnLoadError(out) ELSE out

----------------------------------------------------------------------------
(* utils/config.py *)

required_keys == {"host", "port", "database", "user", "password"}

\* Kinds of configuration values: "str" a string that is no number, "int" an
\* integer, "intstr" a string of digits, "null" JSON null.
ConfigDict(keys, portKind) ==
    [k \in keys |-> IF k = "port" THEN portKind ELSE "str"]

get_default_config == ConfigDict(required_keys, "int")

\* What --config can name: nothing (the default configuration is used), a
\* file that cannot be opened, a file that is no JSON, or a JSON object.
ConfigInputs ==
    {[kind |-> k, dict |-> ConfigDict({}, "int")] : k \in {"default", "unreadable", "invalid"}}
    \cup {[kind |-> "file", dict |-> ConfigDict(required_keys, p)] :
            p \in {"int", "intstr", "str", "null"}}
    \cup {[kind |-> "file", dict |-> ConfigDict(required_keys \ {k}, "int")] :
            k \in required_keys}

\* load_config raises FileNotFoundError / JSONDecodeError.
LoadConfigRaises(input) == input.kind \in {"unreadable", "invalid"}

load_config(input) == input.dict

\* int(config['port']) succeeds.
IntCoercible(v) == v \in {"int", "intstr"}

\* Faulty variant: the port is not looked at.
ValidateKeysOnly(cfg) == \A k \in required_keys : k \in DOMAIN cfg

validate_config(cfg) ==
    /\ \A k \in required_keys : k \in DOMAIN cfg
    /\ IntCoercible(cfg["port"])

\* Command-line overrides (--host, --port, ...) given in an invocation.
OverrideSets == {{}, {"host", "port"}}

ApplyOverrides(cfg, given) ==
    [k \in DOMAIN cfg \cup given |->
        IF k \in given THEN (IF k = "port" THEN "int" ELSE "str") ELSE cfg[k]]

----------------------------------------------------------------------------
(* The destination store *)

EmptyTable == [k \in {} |-> <<>>]

OldCoerced(t) ==
    IF CoercedCol(t) \in NumericCols(t) THEN IntVal("2") ELSE TsVal("1999-12-31")

OldRow(t) == [c \in NonKeyCols(t) |-> IF c = TextCol THEN Raw("old") ELSE OldCoerced(t)]

\* Content a table may hold before the command runs.
TableContents(t) == {EmptyTable, [k \in {"1"} |-> OldRow(t)]}

InitialStores ==
    {[t \in Tables |-> EmptyTable], [t \in Tables |-> [k \in {"1"} |-> OldRow(t)]]}

\* SELECT COUNT(*) FROM table
CountRows(tbl) == Cardinality(DOMAIN tbl)

\* Faulty variant: autocommit left on, every statement is committed at once.
AutocommitOn(committed, pending) == pending

\* connect(), "self.connection.autocommit = False": the statements of a
\* transaction leave the committed content alone until commit.
AfterStatements(committed, pending) == committed

\* connection.commit(): what the transaction holds becomes the content.
CommitStore(committed, pending) == pending

\* connection.rollback(): the transaction sees the committed content again.
RollbackTxn(committed, pending) == committed

----------------------------------------------------------------------------
(* The source files of the command-line flow *)

GoodCoerced(t) == IF CoercedCol(t) \in NumericCols(t) THEN "1" ELSE "2020-01-01"

Row2(t, id, co) == [c \in {KeyCol, CoercedCol(t)} |-> IF c = KeyCol THEN id ELSE co]

Row3(t, id, co, tx) ==
    [c \in {KeyCol, CoercedCol(t), TextCol} |->
        IF c = KeyCol THEN id ELSE IF c = TextCol THEN tx ELSE co]

H2(t) == <<KeyCol, CoercedCol(t)>>
H3(t) == <<KeyCol, CoercedCol(t), TextCol>>

\* The files the data directory may hold for a table: none; an unparseable
\* one; rows that load (a key that may be stored already, a blank row, a new
\* key with blank cells); the same key twice; a fractional id; a row whose
\* only cell is unparseable text in a coerced column.
SourceFiles(t) ==
    { Missing, Malformed,
      CsvFile(H3(t), <<Row3(t, "1", GoodCoerced(t), "x"), Row3(t, "", "", ""),
                       Row3(t, "2", "", "")>>),
      CsvFile(H2(t), <<Row2(t, "1", "abc"), Row2(t, "1", GoodCoerced(t))>>),
      CsvFile(H3(t), <<Row3(t, "1", GoodCoerced(t), "x"), Row3(t, "1.5", "", "")>>),
      CsvFile(H3(t), <<Row3(t, "1", GoodCoerced(t), "x"), Row3(t, "", "abc", "")>>) }

----------------------------------------------------------------------------
(* main(): the command-line flow *)

Call(op, arg) == <<op, arg>>

Calls(op) == Len(SelectSeq(log, LAMBDA e : e[1] = op))

NoResults == [t \in {} |-> 0]

\* How an invocation that has exited ended: its load committed, a table's
\* load raised, the store refused the commit, or it loaded nothing.
RunOutcome ==
    IF Calls("commit") = 1 /\ raisedAt # "commit" THEN "committed"
    ELSE IF raisedAt \in Tables THEN "load_failed"
    ELSE IF raisedAt = "commit" THEN "commit_failed"
    ELSE "no_load"

\* State of a process that has just parsed its arguments (args.verify_only = vo).
Invocation(n, vo, prev) ==
    /\ pc = "load_config"
    /\ run = n
    /\ verify_only = vo
    /\ config = ConfigDict({}, "int")
    /\ connection = "noloader"
    /\ txn = store
    /\ storeAtStart = store
    /\ idx = 1
    /\ results = NoResults
    /\ payload = <<>>
    /\ raisedAt = "none"
    /\ mainResults = <<>>
    /\ verifyResults = <<>>
    /\ exitCode = 0
    /\ prevOutcome = prev
    /\ log = <<>>

Init ==
    /\ store \in InitialStores
    /\ files = [t \in Tables |-> Unread]
    /\ \E vo \in BOOLEAN : Invocation(1, vo, "first")

\* Lines 304-309: load_config(args.config) / get_default_config().  An
\* exception is caught at line 362: sys.exit(1), nothing to disconnect.
MainLoadConfig ==
    /\ pc = "load_config"
    /\ \E input \in ConfigInputs :
          IF LoadConfigRaises(input)
          THEN /\ pc' = "except"
               /\ raisedAt' = "load_config"
               /\ UNCHANGED config
          ELSE /\ pc' = "validate"
               /\ config' = IF input.kind = "default" THEN get_default_config
                            ELSE load_config(input)
               /\ UNCHANGED raisedAt
    /\ UNCHANGED <<run, verify_only, connection, files, store, txn, storeAtStart, idx,
                   results, payload, mainResults, verifyResults, exitCode, prevOutcome, log>>

\* Lines 311-335: validate_config; sys.exit(1) when it fails (SystemExit is
\* not caught by "except Exception", the finally clause runs); otherwise the
\* command-line overrides and the construction of the loader.
MainValidate ==
    /\ pc = "validate"
    /\ IF ~validate_config(config)
       THEN /\ pc' = "finally"
            /\ exitCode' = 1
            /\ raisedAt' = "validate"
            /\ UNCHANGED <<config, connection>>
       ELSE /\ \E given \in OverrideSets : config' = ApplyOverrides(config, given)
            /\ connection' = "none"
            /\ pc' = "connect"
            /\ UNCHANGED <<exitCode, raisedAt>>
    /\ UNCHANGED <<run, verify_only, files, store, txn, storeAtStart, idx, results,
                   payload, mainResults, verifyResults, prevOutcome, log>>

\* Faulty variant: a failed connection attempt is made again.
RetryConnect == "connect"

\* connect(), lines 75-77: "except psycopg2.Error: logger.error(...); raise",
\* which main catches at line 362.
OnConnectError == "except"

\* Line 338, connect(): psycopg2.connect succeeds or raises; on success the
\* flow branches on args.verify_only (line 340).
MainConnect ==
    /\ pc = "connect"
    /\ log' = Append(log, Call("connect", ""))
    /\ \/ /\ connection' = "open"
          /\ txn' = store
          /\ pc' = IF verify_only THEN "verify" ELSE "load"
          /\ UNCHANGED raisedAt
       \/ /\ pc' = OnConnectError
          /\ raisedAt' = "connect"
          /\ UNCHANGED <<connection, txn>>
    /\ UNCHANGED <<run, verify_only, config, files, store, storeAtStart, idx, results,
                   payload, mainResults, verifyResults, exitCode, prevOutcome>>

\* load_all_tables, one iteration of "for table_name in self.table_load_order"
\* (lines 228-230): load_table on the table's source file.  The file is what
\* the data directory holds; it is fixed the first time it is looked at.
LoadNext(i) ==
    /\ pc = "load"
    /\ idx = i
    /\ LET t == table_load_order[i] IN
       \E f \in (IF files[t].status = "unread" THEN SourceFiles(t) ELSE {files[t]}) :
          LET out == load_table(t, f, txn[t]) IN
          /\ files' = [files EXCEPT ![t] = f]
          /\ txn' = [txn EXCEPT ![t] = out.table]
          /\ store' = AfterStatements(store, txn')
          /\ payload' = out.tuples
          /\ log' = Append(log, Call("load_table", t))
          /\ IF out.status = "raise"
             THEN /\ pc' = "rollback"
                  /\ raisedAt' = t
                  /\ UNCHANGED <<idx, results>>
             ELSE /\ results' = [u \in DOMAIN results \cup {t} |->
                                    IF u = t THEN out.count ELSE results[u]]
                  /\ idx' = i + 1
                  /\ pc' = IF i = NumTables THEN "commit" ELSE "load"
                  /\ UNCHANGED raisedAt
    /\ UNCHANGED <<run, verify_only, config, connection, storeAtStart,
                   mainResults, verifyResults, exitCode, prevOutcome>>

\* load_all_tables, line 233: connection.commit(), then "return results" to
\* main (line 347).  The store may refuse the commit, which raises into the
\* except clause of load_all_tables.
Commit ==
    /\ pc = "commit"
    /\ log' = Append(log, Call("commit", ""))
    /\ \/ /\ store' = CommitStore(store, txn)
          /\ mainResults' = <<results>>
          /\ pc' = "verify"
          /\ UNCHANGED raisedAt
       \/ /\ pc' = "rollback"
          /\ raisedAt' = "commit"
          /\ UNCHANGED <<store, mainResults>>
    /\ UNCHANGED <<run, verify_only, config, connection, files, txn, storeAtStart, idx,
                   results, payload, verifyResults, exitCode, prevOutcome>>

\* Faulty variant: the exception is not re-raised and main goes on to verify.
ContinueAfterRollback == "verify"

\* load_all_tables, line 239: "raise" after the rollback, caught by main at
\* line 362.
AfterRollback == "except"

\* load_all_tables, lines 236-239: connection.rollback() and re-raise to main.
Rollback ==
    /\ pc = "rollback"
    /\ log' = Append(log, Call("rollback", ""))
    /\ txn' = RollbackTxn(store, txn)
    /\ pc' = AfterRollback
    /\ UNCHANGED <<run, verify_only, config, connection, files, store, storeAtStart, idx,
                   results, payload, raisedAt, mainResults, verifyResults, exitCode,
                   prevOutcome>>

\* verify_data (lines 243-266): one SELECT COUNT(*) per table of
\* table_load_order; query number failAt raises (0: none does).
\* Faulty variant: the tables are queried last to first.
CountQueriesReversed(n) ==
    [i \in 1..n |-> Call("count", table_load_order[NumTables + 1 - i])]

CountQueries(n) == [i \in 1..n |-> Call("count", table_load_order[i])]

Verify ==
    /\ pc = "verify"
    /\ \E failAt \in 0..NumTables :
          IF failAt = 0
          THEN LET counts == [t \in Tables |-> CountRows(txn[t])] IN
               /\ log' = log \o CountQueries(NumTables)
               /\ IF verify_only
                  THEN mainResults' = <<counts>> /\ UNCHANGED verifyResults
                  ELSE verifyResults' = <<counts>> /\ UNCHANGED mainResults
               /\ pc' = "summary"
               /\ UNCHANGED raisedAt
          ELSE /\ log' = log \o CountQueries(failAt)
               /\ pc' = "except"
               /\ raisedAt' = "verify"
               /\ UNCHANGED <<mainResults, verifyResults>>
    /\ UNCHANGED <<run, verify_only, config, connection, files, store, txn, storeAtStart,
                   idx, results, payload, exitCode, prevOutcome>>

\* Lines 353-360: the summary is logged; the try block ends normally.
Summary ==
    /\ pc = "summary"
    /\ pc' = "finally"
    /\ exitCode' = 0
    /\ UNCHANGED <<run, verify_only, config, connection, files, store, txn, storeAtStart,
                   idx, results, payload, raisedAt, mainResults, verifyResults,
                   prevOutcome, log>>

\* Lines 362-364: "except Exception": the error is logged, sys.exit(1).
Except ==
    /\ pc = "except"
    /\ pc' = "finally"
    /\ exitCode' = 1
    /\ UNCHANGED <<run, verify_only, config, connection, files, store, txn, storeAtStart,
                   idx, results, payload, raisedAt, mainResults, verifyResults,
                   prevOutcome, log>>

\* Faulty variant: close() without the guard; "error" stands for the
\* AttributeError of None.close().
DisconnectAlways(conn) == IF conn = "open" THEN "closed" ELSE "error"

\* disconnect (lines 79-83): "if self.connection: self.connection.close()".
disconnect(conn) == IF conn = "open" THEN "closed" ELSE conn

\* Lines 365-367: "finally: if 'loader' in locals(): loader.disconnect()",
\* then the process ends.  Closing the connection discards what the
\* transaction had not committed.
Finally ==
    /\ pc = "finally"
    /\ pc' = "exited"
    /\ IF connection = "noloader"
       THEN UNCHANGED <<connection, log, txn>>
       ELSE /\ connection' = disconnect(connection)
            /\ log' = IF connection' # connection THEN Append(log, Call("close", "")) ELSE log
            /\ txn' = store
    /\ UNCHANGED <<run, verify_only, config, files, store, storeAtStart, idx, results,
                   payload, raisedAt, mainResults, verifyResults, exitCode, prevOutcome>>

\* The operator runs the command again on the same data directory and store.
Rerun ==
    /\ pc = "exited"
    /\ run < MaxRuns
    /\ UNCHANGED <<files, store>>
    /\ \E vo \in BOOLEAN :
          /\ pc' = "load_config"
          /\ run' = run + 1
          /\ verify_only' = vo
          /\ config' = ConfigDict({}, "int")
          /\ connection' = "noloader"
          /\ txn' = store
          /\ storeAtStart' = store
          /\ idx' = 1
          /\ results' = NoResults
          /\ payload' = <<>>
          /\ raisedAt' = "none"
          /\ mainResults' = <<>>
          /\ verifyResults' = <<>>
          /\ exitCode' = 0
          /\ prevOutcome' = RunOutcome
          /\ log' = <<>>

Next ==
    \/ MainLoadConfig
    \/ MainValidate
    \/ MainConnect
    \/ \E i \in 1..NumTables : LoadNext(i)
    \/ Commit
    \/ Rollback
    \/ Verify
    \/ Summary
    \/ Except
    \/ Finally
    \/ Rerun

Spec == Init /\ [][Next]_vars

\* One load invocation from the point where main has built the loader from
\* the default configuration (line 335) and is about to connect.
InitLoad ==
    /\ store \in InitialStores
    /\ files = [t \in Tables |-> Unread]
    /\ pc = "connect"
    /\ run = 1
    /\ verify_only = FALSE
    /\ config = get_default_config
    /\ connection = "none"
    /\ txn = store
    /\ storeAtStart = store
    /\ idx = 1
    /\ results = NoResults
    /\ payload = <<>>
    /\ raisedAt = "none"
    /\ mainResults = <<>>
    /\ verifyResults = <<>>
    /\ exitCode = 0
    /\ prevOutcome = "first"
    /\ log = <<>>

NextLoad ==
    \/ MainConnect
    \/ \E i \in 1..NumTables : LoadNext(i)
    \/ Commit
    \/ Rollback
    \/ Verify
    \/ Summary
    \/ Except
    \/ Finally

\* main is one sequential thread of blocking calls: each call returns or
\* raises and the next statement runs, so a step that can be taken is taken.
SpecLoad == InitLoad /\ [][NextLoad]_vars /\ WF_vars(NextLoad)

----------------------------------------------------------------------------
(* load_table on its own: one table, any source file of the bounded input  *)
(* space (written row by row), loaded once inside an open transaction      *)

InitTable ==
    /\ pc = "table_input"
    /\ run = 1
    /\ verify_only = FALSE
    /\ config = get_default_config
    /\ connection = "open"
    /\ \E i \in 1..NumTables :
          LET t == table_load_order[i] IN
          /\ idx = i
          /\ \E f \in {Missing, Malformed} \cup {CsvFile(h, <<>>) : h \in Headers(t)} :
                files = [u \in Tables |-> IF u = t THEN f ELSE Unread]
          /\ \E c \in TableContents(t) :
                store = [u \in Tables |-> IF u = t THEN c ELSE EmptyTable]
    /\ txn = store
    /\ storeAtStart = store
    /\ results = NoResults
    /\ payload = <<>>
    /\ raisedAt = "none"
    /\ mainResults = <<>>
    /\ verifyResults = <<>>
    /\ exitCode = 0
    /\ prevOutcome = "first"
    /\ log = <<>>

\* The source file gets one more row before the loader runs.
TableAppendRow ==
    /\ pc = "table_input"
    /\ LET t == table_load_order[idx] IN
       /\ files[t].status = "ok"
       /\ Len(files[t].rows) < MaxRows
       /\ \E r \in RawRows(t, files[t].header) :
             files' = [files EXCEPT ![t].rows = Append(@, r)]
    /\ UNCHANGED <<pc, run, verify_only, config, connection, store, txn, storeAtStart, idx,
                   results, payload, raisedAt, mainResults, verifyResults, exitCode,
                   prevOutcome, log>>

TableLoad ==
    /\ pc = "table_input"
    /\ LET t == table_load_order[idx]
           out == load_table(t, files[t], txn[t])
       IN  /\ txn' = [txn EXCEPT ![t] = out.table]
           /\ store' = AfterStatements(store, txn')
           /\ payload' = out.tuples
           /\ log' = Append(log, Call("load_table", t))
           /\ IF out.status = "raise"
              THEN /\ pc' = "table_raised"
                   /\ raisedAt' = out.step
                   /\ UNCHANGED results
              ELSE /\ pc' = "table_returned"
                   /\ results' = [u \in {t} |-> out.count]
                   /\ UNCHANGED raisedAt
    /\ UNCHANGED <<run, verify_only, config, connection, files, storeAtStart, idx,
                   mainResults, verifyResults, exitCode, prevOutcome>>

NextTable == TableAppendRow \/ TableLoad

SpecTable == InitTable /\ [][NextTable]_vars

----------------------------------------------------------------------------
(* Properties of the command-line flow (Spec) *)

\* load_table has been called for table t in the current invocation.
Looked(t) == \E k \in 1..Len(log) : log[k] = Call("load_table", t)

\* load_all_tables has handed control back to main after an exception.
BackInMain == pc \in {"except", "finally", "exited"}

\* C1 - Atomicity of load_all_tables: when load_table raises for some table,
\* then once load_all_tables has handed control back, every table holds what
\* it held before the call, both as committed and as seen through the
\* loader's connection, and the exception reached the caller: main got no
\* results and the process ends with status 1.
C1_Atomicity ==
    (raisedAt \in Tables /\ BackInMain) =>
        /\ store = storeAtStart
        /\ txn = storeAtStart
        /\ mainResults = <<>>
        /\ (pc = "exited" => exitCode = 1)

\* The second table fails after the first one wrote rows in the transaction.
C1_Witness ==
    /\ pc = "except"
    /\ raisedAt = "bio_email"
    /\ "bio_vip" \in DOMAIN results
    /\ results["bio_vip"] > 0
    /\ store = storeAtStart

\* C2 - A missing source is not fatal: a table whose file is absent never is
\* the table whose load raised and gets 0 in results; and an invocation whose
\* load loop ended without a table raising and whose commit the store
\* accepted has called load_table for all tables in order, recorded all of
\* them and committed what the transaction held.
C2_MissingNonFatal ==
    /\ \A t \in Tables :
          (files[t].status = "missing" /\ Looked(t)) =>
              /\ raisedAt # t
              /\ t \in DOMAIN results
              /\ results[t] = 0
    /\ (Calls("load_table") > 0 /\ raisedAt \notin (Tables \cup {"commit"})
            /\ pc \notin {"load", "commit"}) =>
              /\ SelectSeq(log, LAMBDA e : e[1] = "load_table")
                    = [i \in 1..NumTables |-> Call("load_table", table_load_order[i])]
              /\ DOMAIN results = Tables
              /\ Calls("commit") = 1
              /\ Calls("rollback") = 0
              /\ mainResults = <<results>>

\* The first table's file is absent, the second one loads rows, and the
\* invocation commits.
C2_Witness ==
    /\ pc = "exited"
    /\ RunOutcome = "committed"
    /\ files["bio_vip"].status = "missing"
    /\ results["bio_vip"] = 0
    /\ results["bio_email"] > 0
    /\ files["bio_email_for_vip_tags"].status = "missing"

\* C3 - Upsert idempotence: once an invocation of the loader has run
\* load_all_tables on the sources (it committed, or a table's load raised and
\* it rolled back), a further invocation on the same sources leaves every
\* table with the rows (keys and column values) the first one left.
C3_Idempotent ==
    prevOutcome \in {"committed", "load_failed"} => store = storeAtStart

\* A second load of sources that wrote rows has committed as well.
C3_Witness ==
    /\ run = 2
    /\ pc = "exited"
    /\ prevOutcome = "committed"
    /\ RunOutcome = "committed"
    /\ \E t \in Tables : results[t] > 0 /\ store[t] # EmptyTable

\* C5 - Verify/load count relation: after a successful load_all_tables, the
\* count verify_data reports for a table is at least the count
\* load_all_tables returned for it.
C5_VerifyAtLeastLoaded ==
    (Len(verifyResults) = 1 /\ Len(mainResults) = 1) =>
        \A t \in Tables : verifyResults[1][t] >= mainResults[1][t]

\* C8 - Guaranteed release: the connection is never closed twice; a process
\* that opened a connection ends with exactly one close and the connection
\* closed; a process that opened none (configuration refused, connection
\* attempt failed) ends with no close and no error from the release step.
C8_Release ==
    /\ Calls("close") <= 1
    /\ connection # "error"
    /\ pc = "exited" =>
          IF Calls("connect") = 1 /\ raisedAt # "connect"
          THEN Calls("close") = 1 /\ connection = "closed"
          ELSE Calls("close") = 0 /\ connection \in {"noloader", "none"}

\* A load that failed and was rolled back ends with the connection closed.
C8_Witness ==
    /\ pc = "exited"
    /\ raisedAt \in Tables
    /\ Calls("rollback") = 1
    /\ Calls("close") = 1
    /\ connection = "closed"

\* The configuration as loaded lacks a required key or has a port that is no
\* integer (an unreadable or invalid file leaves no configuration at all).
BadConfig ==
    \/ \E k \in required_keys : k \notin DOMAIN config
    \/ config["port"] \notin {"int", "intstr"}

\* C9 - Configuration gate: with a configuration that lacks one of the five
\* keys, or whose port is not coercible to an integer, or whose file is
\* unreadable or invalid, no connection is attempted, no table is loaded and
\* the process exits with a non-zero status.
C9_ConfigGate ==
    (pc # "load_config" /\ BadConfig) =>
        /\ Calls("connect") = 0
        /\ Calls("load_table") = 0
        /\ connection = "noloader"
        /\ store = storeAtStart
        /\ pc \in {"validate", "except", "finally", "exited"}
        /\ (pc = "exited" => exitCode # 0)

\* A configuration with all five keys and a port that is no number.
C9_Witness ==
    /\ pc = "exited"
    /\ exitCode = 1
    /\ required_keys \subseteq DOMAIN config
    /\ config["port"] = "str"
    /\ Calls("connect") = 0

\* The try block of load_table raises on the source of table t.
SourceRaises(t) ==
    /\ files[t].status \in {"malformed", "ok"}
    /\ LoadTableTry(t, files[t], storeAtStart[t]).status = "raise"

\* C10 - Failures on an existing source are fatal: when a table's file exists
\* and reading, cleaning or upserting it raises, load_table records no count
\* for the table (in particular not 0); the exception leaves
\* load_all_tables, which rolls back, does not commit and returns no results.
C10_ExistingSourceFatal ==
    \A t \in Tables :
        (Looked(t) /\ SourceRaises(t)) =>
            /\ t \notin DOMAIN results
            /\ raisedAt = t
            /\ Calls("commit") = 0
            /\ mainResults = <<>>
            /\ store = storeAtStart
            /\ pc \in {"rollback", "except", "finally", "exited"}
            /\ (BackInMain => Calls("rollback") = 1 /\ txn = store)

\* The third table's existing file makes the store refuse a statement; the
\* invocation rolled back and exited.
C10_Witness ==
    /\ pc = "exited"
    /\ raisedAt = "bio_name"
    /\ files["bio_name"].status = "ok"
    /\ Len(payload) > 0
    /\ Calls("rollback") = 1
    /\ exitCode = 1

----------------------------------------------------------------------------
(* Properties of load_table (SpecTable) *)

\* The table being loaded, its source header, and what it held before.
TheTable == table_load_order[idx]
TheHeader == files[TheTable].header
Before == storeAtStart[TheTable]
After == txn[TheTable]

\* Row i of the upsert payload is the last one with its key.
LastWithKey(i) ==
    \A j \in (i + 1)..Len(payload) : payload[j][KeyCol] # payload[i][KeyCol]

\* C4 as stated - Overwrite on conflict: after a load that succeeded, for
\* every incoming row whose key the store already held, the stored row with
\* that key equals the incoming row in every non-key column of the header.
C4_EveryIncomingRow ==
    pc = "table_returned" =>
        \A i \in 1..Len(payload) :
            payload[i][KeyCol][2] \in DOMAIN Before =>
                \A c \in SetCols(TheHeader) :
                    After[payload[i][KeyCol][2]][c] = payload[i][c]

\* C4 as amended - the same of the last incoming row with that key: the
\* stored row equals it in every non-key column of the header, null where
\* its cell is null, whatever the row held before.
C4_Overwrite ==
    pc = "table_returned" =>
        \A i \in 1..Len(payload) :
            (payload[i][KeyCol][2] \in DOMAIN Before /\ LastWithKey(i)) =>
                \A c \in SetCols(TheHeader) :
                    After[payload[i][KeyCol][2]][c] = payload[i][c]

\* A stored non-null value has been replaced by the null of the incoming row.
C4_Witness ==
    /\ pc = "table_returned"
    /\ \E i \in 1..Len(payload) :
          /\ payload[i][KeyCol][2] \in DOMAIN Before
          /\ LastWithKey(i)
          /\ \E c \in SetCols(TheHeader) :
                /\ payload[i][c] = Null
                /\ Before[payload[i][KeyCol][2]][c] # Null
                /\ After[payload[i][KeyCol][2]][c] = Null

\* C6 - Coercion is total and non-raising: clean_data never raises, and every
\* value it delivers in a numeric column is an integer or null, in a
\* timestamp column a date-time or null.
C6_CoercionTotal ==
    pc # "table_input" =>
        /\ raisedAt # "clean_data"
        /\ \A i \in 1..Len(payload) : \A c \in DOMAIN payload[i] :
              /\ c \in NumericCols(TheTable) => payload[i][c][1] \in {"int", "null"}
              /\ c \in TimestampCols(TheTable) => payload[i][c][1] \in {"ts", "null"}

\* C7 - All-null rows are excluded: no row of the upsert payload has all its
\* values null, also when the row's only non-blank cells were unparseable
\* values in coerced columns; so no such row is written or counted.
C7_AllNullExcluded ==
    pc # "table_input" =>
        /\ \A i \in 1..Len(payload) : ~AllNull(payload[i])
        /\ (pc = "table_returned" =>
               results[TheTable] <= Len(SelectSeq(ReadCsv(files[TheTable]),
                    LAMBDA r : \E c \in DOMAIN r :
                        /\ r[c] # Null
                        /\ (c \in NumericCols(TheTable) => ToNumeric(r[c]) # Null)
                        /\ (c \in TimestampCols(TheTable) => ToDatetime(r[c]) # Null))))

----------------------------------------------------------------------------
(* Further properties of the command-line flow (Spec) *)

\* The count queries of the current invocation, in the order they were issued.
CountCalls == SelectSeq(log, LAMBDA e : e[1] = "count")

\* C11 - verify_data is read-only: the step that runs verify_data, whether
\* it returns or raises, leaves the rows of every table as they were (as
\* committed and as seen through the connection), and issues its count
\* queries for bio_vip, bio_email, bio_name, bio_email_for_vip,
\* bio_email_for_vip_tags in this order, one per table, up to the query that
\* raises; when it returns it has queried all five and reports for each
\* table the number of rows it holds.
C11_VerifyReadOnly ==
    [][pc = "verify" =>
          /\ store' = store
          /\ txn' = txn
          /\ \E k \in 1..5 :
                /\ log' = log \o SubSeq(<<Call("count", "bio_vip"), Call("count", "bio_email"),
                                          Call("count", "bio_name"),
                                          Call("count", "bio_email_for_vip"),
                                          Call("count", "bio_email_for_vip_tags")>>, 1, k)
                /\ pc' = "summary" =>
                      /\ k = 5
                      /\ LET got == IF verify_only THEN mainResults' ELSE verifyResults'
                         IN  /\ Len(got) = 1
                             /\ \A t \in Tables : got[1][t] = Cardinality(DOMAIN store[t])
                /\ pc' # "summary" => pc' = "except" /\ raisedAt' = "verify"]_vars

\* verify_data raised at its third query after a load that committed rows.
C11_Witness ==
    /\ pc = "except"
    /\ raisedAt = "verify"
    /\ Len(CountCalls) = 3
    /\ Len(mainResults) = 1
    /\ \E t \in Tables : store[t] # storeAtStart[t]

\* The load_table calls of the current invocation, in the order they were made.
LoadCalls == SelectSeq(log, LAMBDA e : e[1] = "load_table")

\* The position in the log of the last load_table call (0 when there is none).
LastLoadAt ==
    LET at == {n \in 1..Len(log) : log[n][1] = "load_table"}
    IN  IF at = {} THEN 0 ELSE CHOOSE n \in at : \A k \in at : k <= n

\* The transaction of this invocation was committed: commit() was called and
\* returned.
Committed == Calls("commit") >= 1 /\ raisedAt # "commit"

\* The transaction of this invocation was rolled back.
RolledBack == Calls("rollback") >= 1

\* What holds of the transaction in every state of a run.
TxnMachine ==
    /\ \E k \in 0..5 :
          LoadCalls = SubSeq(<<Call("load_table", "bio_vip"), Call("load_table", "bio_email"),
                               Call("load_table", "bio_name"),
                               Call("load_table", "bio_email_for_vip"),
                               Call("load_table", "bio_email_for_vip_tags")>>, 1, k)
    /\ Calls("commit") <= 1
    /\ Calls("rollback") <= 1
    /\ Calls("commit") = 1 =>
          /\ Len(LoadCalls) = 5
          /\ DOMAIN results = Tables
          /\ log[LastLoadAt + 1] = Call("commit", "")
    /\ raisedAt \in Tables =>
          /\ log[LastLoadAt] = Call("load_table", raisedAt)
          /\ Calls("commit") = 0
          /\ IF Len(log) = LastLoadAt
             THEN pc = "rollback"
             ELSE log[LastLoadAt + 1] = Call("rollback", "")
    /\ RolledBack => raisedAt \in Tables \cup {"commit"}
    /\ ~(Committed /\ RolledBack)

\* C12 - Transaction state machine: in every run the load_table calls are a
\* prefix of bio_vip, bio_email, bio_name, bio_email_for_vip,
\* bio_email_for_vip_tags in this order; commit is called at most once, and
\* only directly after the fifth load_table call returned, all five having
\* returned; a load_table call that raises is directly followed by the
\* rollback; the transaction is never both committed and rolled back (a
\* rollback follows a commit call only when that call raised); and once
\* loading has started the transaction is eventually committed or rolled back.
C12_TxnStateMachine ==
    /\ []TxnMachine
    /\ (pc = "load") ~> (Committed \/ RolledBack)

\* The third table's load raised after two tables were loaded, rows of the
\* first among them, and the transaction was rolled back.
C12_Witness ==
    /\ raisedAt = "bio_name"
    /\ DOMAIN results = {"bio_vip", "bio_email"}
    /\ results["bio_vip"] > 0
    /\ RolledBack
    /\ txn = storeAtStart
    /\ pc = "except"

\* How many times load_table was called for table t in this invocation.
LoadCallsOf(t) == Len(SelectSeq(log, LAMBDA e : e = Call("load_table", t)))

\* Where the flow can be once a step of this invocation has raised.
Unwinding == {"rollback", "except", "finally", "exited"}

\* C14 - No internal retry: within one invocation the connection is
\* attempted at most once, load_table is called at most once for each table
\* and commit at most once; and once connect, a load_table call or commit
\* has raised, the flow only unwinds (rollback, error exit, disconnect): it
\* never goes back to a step it has made.
C14_NoRetry ==
    /\ Calls("connect") <= 1
    /\ \A t \in Tables : LoadCallsOf(t) <= 1
    /\ Calls("commit") <= 1
    /\ raisedAt \in Tables \cup {"connect", "commit"} => pc \in Unwinding
    /\ raisedAt = "connect" => Calls("connect") = 1 /\ LoadCalls = <<>>

\* The one connection attempt failed and the process has exited with status 1.
C14_Witness ==
    /\ raisedAt = "connect"
    /\ Calls("connect") = 1
    /\ pc = "exited"
    /\ exitCode = 1

\* The position of table t in the load order.
OrderOf(t) == CHOOSE i \in 1..NumTables : table_load_order[i] = t

\* The position in the log of the first count query (0 when there is none).
FirstCountAt ==
    LET at == {n \in 1..Len(log) : log[n][1] = "count"}
    IN  IF at = {} THEN 0 ELSE CHOOSE n \in at : \A k \in at : n <= k

\* C15 - Stop at first failure: when load_table has raised for a table, no
\* load_table call was made in that run for a table after it in the order,
\* the tables after it are as they were at the start (in the first run their
\* sources have not been looked at), and no count query of verify_data is
\* made; nor is one made after a rollback.  In the load flow a count query is
\* made only after the commit call, which returned.
C15_StopAtFirstFailure ==
    /\ raisedAt \in Tables =>
          /\ \A t \in Tables :
                OrderOf(t) > OrderOf(raisedAt) =>
                    /\ LoadCallsOf(t) = 0
                    /\ txn[t] = storeAtStart[t]
                    /\ run = 1 => files[t] = Unread
          /\ Calls("count") = 0
    /\ RolledBack => Calls("count") = 0
    /\ (~verify_only /\ Calls("count") > 0) =>
          /\ Committed
          /\ store = txn
          /\ \E n \in 1..Len(log) : log[n] = Call("commit", "") /\ n < FirstCountAt

\* The second table's load raised: the process exited with status 1 without
\* a call for the three tables after it and without a count query.
C15_Witness ==
    /\ raisedAt = "bio_email"
    /\ DOMAIN results = {"bio_vip"}
    /\ Len(LoadCalls) = 2
    /\ RolledBack
    /\ Calls("count") = 0
    /\ pc = "exited"
    /\ exitCode = 1

----------------------------------------------------------------------------
(* Further properties of load_table (SpecTable) *)

\* Row i of the upsert payload shares its key with another row of the payload.
DuplicateKey(i) ==
    \E j \in 1..Len(payload) : j # i /\ payload[j][KeyCol] = payload[i][KeyCol]

\* C13 - Duplicate primary keys within one source are resolved
\* last-writer-wins: the upsert of the cleaned rows raises only when the
\* statement has no column to set or a row has a null key, never because two
\* rows carry the same key; and after a load that returned, for every key
\* that two or more cleaned rows carry, the stored row with that key holds in
\* every non-key column of the header the value of the last such row.
C13_LastWriterWins ==
    /\ (pc = "table_raised" /\ raisedAt = "executemany") =>
          \/ EmptySetClause(TheHeader)
          \/ \E i \in 1..Len(payload) : NullKeyRejected(payload[i])
    /\ pc = "table_returned" =>
          \A i \in 1..Len(payload) :
              (DuplicateKey(i) /\ LastWithKey(i)) =>
                  /\ payload[i][KeyCol][2] \in DOMAIN After
                  /\ \A c \in SetCols(TheHeader) :
                        After[payload[i][KeyCol][2]][c] = payload[i][c]

\* Two cleaned rows with the same key and different values were loaded into a
\* table that did not hold the key; the stored row has the values of the
\* second.
C13_Witness ==
    /\ pc = "table_returned"
    /\ Len(payload) = 2
    /\ payload[1][KeyCol] = payload[2][KeyCol]
    /\ payload[1][KeyCol][2] \notin DOMAIN Before
    /\ \E c \in SetCols(TheHeader) :
          /\ payload[1][c] # payload[2][c]
          /\ After[payload[2][KeyCol][2]][c] = payload[2][c]

====
